---- MODULE Spec2Model ----
(***************************************************************************)
(* A model of find_gcs.py (browning-lab/ibd-cluster): the detection of     *)
(* allele conversions in IBD clusters.  The program reads a cluster file   *)
(* (ibdclust output) and a VCF on stdin, one variant line at a time.       *)
(*                                                                         *)
(* Python lists are modelled as TLA+ sequences; a Python index i is the    *)
(* TLA+ index i + 1.  A haplotype index h of a list of 2*m entries names   *)
(* side h \div m of sample h % m (all side-0 entries first, then all       *)
(* side-1 entries), exactly as the lists valleles and oclust are built.    *)
(***************************************************************************)
EXTENDS Integers, Sequences, FiniteSets, Bags, TLC

(* ---------------------------- bounds of the model ---------------------- *)
MaxAllele == 2
MaxPos == 4
MaxRecs == 2
MaxLines == 3
BigId == 7

(* ---------------------------- program constants ------------------------ *)
maxmaf == 1
minclustsize == 4
minpartsize == 2
deletion == 1
FirstSampleColumn == 9
ClusterSampleToken == 3

VARIABLES
    omibdfile,      \* the records of the cluster file after its header line
    rd,             \* how many of them readline() has returned so far
    stdin,          \* the lines of the VCF after its #CHROM header line
    ln,             \* how many of them the main loop has consumed
    vindex,         \* for each sample of the cluster file, its VCF column
    minaf,          \* float(sys.argv[2]), kept as the decimal num/den given
    oprev, onew,    \* the synchronizer's two-record buffer
    nhaps,          \* (len(first record) - 3) * 2
    ndel,           \* ndel[0]
    acclustsizes,   \* the Counter, as a bag of sizes
    status,         \* "running", "crashed" (uncaught exception) or "done"
    stage,          \* how far the latest loop iteration got
    othis,          \* the record the latest iteration selected
    counts,         \* the table the latest iteration passed to print_gcs
    out,            \* the report lines the latest iteration printed
    err,            \* the diagnostics the latest iteration printed
    dels,           \* the clusters the latest iteration called deletions
    eof             \* readline() has returned the empty line

vars == <<omibdfile, rd, stdin, ln, vindex, minaf, oprev, onew, nhaps, ndel,
          acclustsizes, status, stage, othis, counts, out, err, dels, eof>>

(* ---------------------------- Python helpers --------------------------- *)
Abs(x) == IF x < 0 THEN 0 - x ELSE x

SetMax(S) == CHOOSE m \in S : \A x \in S : x <= m

Min2(a, b) == IF a < b THEN a ELSE b

RECURSIVE Pow2(_)
Pow2(e) == IF e = 0 THEN 1 ELSE 2 * Pow2(e - 1)

\* [f(x) for x in s if keep(x)] over range(k): the ascending list of a set
RECURSIVE Ascending(_)
Ascending(S) ==
    IF S = {} THEN <<>>
    ELSE LET m == SetMax(S) IN Append(Ascending(S \ {m}), m)

\* the tokens a|b of a line, split: all first parts, then all second parts
Side0(toks) == [k \in 1..Len(toks) |-> toks[k][1]]
Side1(toks) == [k \in 1..Len(toks) |-> toks[k][2]]

\* a cluster record: ntok whitespace tokens (0 for the empty line at end
\* of file), token 1 as pos, tokens 3.. as toks
EmptyLine == [ntok |-> 0, pos |-> 0, toks |-> <<>>]
Record(p, t) == [ntok |-> ClusterSampleToken + Len(t), pos |-> p, toks |-> t]

nindiv == Len(vindex)
n == 2 * nindiv

(* ---------------------------- floating point --------------------------- *)
(* minaf is the double nearest to the decimal num/den; allelefreqs[i] is   *)
(* the double nearest to c/n.  Rounding to nearest is monotone and maps    *)
(* equal reals to equal doubles, and two distinct fractions with the small *)
(* denominators used here are further apart than any rounding error, so    *)
(* allelefreqs[i] < minaf is decided by the exact fractions.               *)
FreqBelow(c, nn, af) == c * af.den < af.num * nn

(* maf = 1.0 - max(allelefreqs) is rounded twice: q = fl(c/n), then        *)
(* fl(1 - q).  When the exact value d = (n-c)/n differs from num/den the   *)
(* comparison with minaf is again the exact one.  When d = num/den the     *)
(* result is decided by the two rounding errors, computed here exactly in  *)
(* units of 1/(n * 2^(53+j)) with modular arithmetic (the 53-bit integers  *)
(* themselves do not fit the model checker's integers):                    *)
(*   q = c/n lies in [2^-(j+1), 2^-j), d in [2^-(k+1), 2^-k);              *)
(*   r1, b1: remainder and round-up bit of c * 2^(53+j) / n;               *)
(*   s, b3: the j low bits lost by 1 - q and their round-to-even bit;      *)
(*   r2, b2: remainder and round-up bit of (n-c) * 2^(53+k) / n.           *)
RECURSIVE Pow2Mod(_, _)
Pow2Mod(e, m) == IF e = 0 THEN 1 % m ELSE (2 * Pow2Mod(e - 1, m)) % m

RECURSIVE Binade(_, _, _)
Binade(a, b, j) == IF a * Pow2(j + 1) < b THEN Binade(a, b, j + 1) ELSE j

MafRoundedBelow(c, nn) ==
    LET j == Binade(c, nn, 0)
        k == Binade(nn - c, nn, 0)
        m1 == nn * Pow2(j + 1)
        t == (c * Pow2Mod(53 + j, m1)) % m1
        r1 == t % nn
        flow == t \div nn
        b1 == IF 2 * r1 > nn THEN 1 ELSE 0
        xlow == (0 - (flow + b1)) % Pow2(j + 1)
        s == xlow % Pow2(j)
        ybit == xlow \div Pow2(j)
        b3 == IF 2 * s > Pow2(j) \/ (2 * s = Pow2(j) /\ ybit = 1) THEN 1 ELSE 0
        e1 == r1 - nn * b1 - nn * s + nn * b3 * Pow2(j)
        r2 == ((nn - c) * Pow2Mod(53 + k, nn)) % nn
        b2 == IF 2 * r2 > nn THEN 1 ELSE 0
        e2 == nn * b2 - r2
    IN  e1 * Pow2(k) < e2 * Pow2(j)

\* maf < minaf, with maf = 1.0 - c/n for the largest allele count c
MafBelowEqualCase(c, nn) ==
    IF c = 0 \/ c = nn THEN FALSE ELSE MafRoundedBelow(c, nn)

MafBelow(c, nn, af) ==
    IF (nn - c) * af.den # af.num * nn
    THEN (nn - c) * af.den < af.num * nn
    ELSE MafBelowEqualCase(c, nn)

\* maf > maxmaf: 1.0 - q never exceeds 1.0
MafAbove(c, nn) == nn - c > maxmaf * nn

(* ---------------------------- startup (lines 23-32) -------------------- *)
\* vids.index(thisid) + 9 for each id of the cluster file's header
IndexOf(seq, x) == (CHOOSE k \in 1..Len(seq) : seq[k] = x) - 1

VIndex(ids, vids) ==
    [k \in 1..Len(ids) |-> IndexOf(vids, ids[k]) + FirstSampleColumn]

(* ---------------------------- synchronizer (lines 89-96) --------------- *)
\* readline() at cursor r: the next record, or the empty line at end of file
Readline(file, r) == IF r < Len(file) THEN file[r + 1] ELSE EmptyLine

\* The mutant of Sync: the end-of-file case is not dealt with, onew stays
\* the empty line and the loop test indexes it.
RECURSIVE SyncNoEofCase(_, _, _, _, _)
SyncNoEofCase(file, pos, prev, new, r) ==
    IF new.ntok < 2
    THEN [oprev |-> prev, onew |-> new, rd |-> r, eof |-> r >= Len(file),
          crashed |-> TRUE]
    ELSE IF pos > new.pos
    THEN SyncNoEofCase(file, pos, new, Readline(file, r), Min2(r + 1, Len(file)))
    ELSE [oprev |-> prev, onew |-> new, rd |-> r, eof |-> FALSE,
          crashed |-> FALSE]

\* while pos > int(onew[1]): oprev = onew; onew = readline().split(); ...
\* int(onew[1]) raises IndexError on a line of fewer than two tokens.
RECURSIVE Sync(_, _, _, _, _)
Sync(file, pos, prev, new, r) ==
    IF new.ntok < 2
    THEN [oprev |-> prev, onew |-> new, rd |-> r, eof |-> FALSE,
          crashed |-> TRUE]
    ELSE IF pos > new.pos
    THEN LET next == Readline(file, r)
         IN  IF next.ntok = 0
             THEN [oprev |-> new, onew |-> new, rd |-> r, eof |-> TRUE,
                   crashed |-> FALSE]
             ELSE Sync(file, pos, new, next, r + 1)
    ELSE [oprev |-> prev, onew |-> new, rd |-> r, eof |-> FALSE,
          crashed |-> FALSE]

\* The mutant of Othis: <= for <, so that a tie selects the later record.
OthisTieLater(pos, prev, new) ==
    IF Abs(new.pos - pos) <= Abs(prev.pos - pos) THEN new ELSE prev

\* othis = onew if abs(int(onew[1])-pos) < abs(int(oprev[1])-pos) else oprev
Othis(pos, prev, new) ==
    IF Abs(new.pos - pos) < Abs(prev.pos - pos) THEN new ELSE prev

(* ---------------------------- the variant (lines 98-107) --------------- *)
\* a data line of the VCF: pos, and gts, the genotype a|b of each VCF sample
\* vbits[i] for i in vindex raises IndexError on a line with too few columns
ShortLine(vbits) ==
    \E k \in 1..Len(vindex) : vindex[k] - FirstSampleColumn + 1 > Len(vbits.gts)

Valleles(vbits) ==
    LET cols == [k \in 1..Len(vindex) |->
                    vbits.gts[vindex[k] - FirstSampleColumn + 1]]
    IN  Side0(cols) \o Side1(cols)

AlleleCount(valleles, a) ==
    Cardinality({k \in 1..Len(valleles) : valleles[k] = a})

uniqalleles(valleles) == {valleles[k] : k \in 1..Len(valleles)}

nalleles(valleles) == Cardinality(uniqalleles(valleles))

maxalleleplus(valleles) == SetMax(uniqalleles(valleles)) + 1

\* n * max(allelefreqs): the largest allele count
MaxCount(valleles) ==
    SetMax({AlleleCount(valleles, a) : a \in 0..(maxalleleplus(valleles) - 1)})

(* ---------------------------- tabulator (lines 108-116) ---------------- *)
Oclust(rec) == Side0(rec.toks) \o Side1(rec.toks)

maxclustplus(oclust) == SetMax({oclust[k] : k \in 1..Len(oclust)}) + 1

\* for i in range(nhaps): counts[oclust[i]][valleles[i]] += 1 raises
\* IndexError as soon as i runs past either list
TabulateCrash(oclust, valleles, h) == h > Len(oclust) \/ h > Len(valleles)

Counts(oclust, valleles, h) ==
    [j \in 0..(maxclustplus(oclust) - 1) |->
        [a \in 0..(maxalleleplus(valleles) - 1) |->
            Cardinality({i \in 0..(h - 1) :
                            oclust[i + 1] = j /\ valleles[i + 1] = a})]]

Clustsize(oclust, h) ==
    [j \in 0..(maxclustplus(oclust) - 1) |->
        Cardinality({i \in 0..(h - 1) : oclust[i + 1] = j})]

(* ---------------------------- multiallelic step (lines 117-123) -------- *)
\* The mutant of Collapse: the rare allele is zeroed in the first cluster's
\* row only.
CollapseFirstRow(cnt, valleles, af) ==
    IF nalleles(valleles) > 2
       /\ Cardinality({a \in 0..(maxalleleplus(valleles) - 1) :
                          AlleleCount(valleles, a) > 0}) > 2
    THEN [j \in DOMAIN cnt |-> [a \in DOMAIN cnt[j] |->
             IF j = 0 /\ FreqBelow(AlleleCount(valleles, a), n, af)
             THEN 0 ELSE cnt[j][a]]]
    ELSE cnt

Collapse(cnt, valleles, af) ==
    IF nalleles(valleles) > 2
       /\ Cardinality({a \in 0..(maxalleleplus(valleles) - 1) :
                          AlleleCount(valleles, a) > 0}) > 2
    THEN [j \in DOMAIN cnt |-> [a \in DOMAIN cnt[j] |->
             IF FreqBelow(AlleleCount(valleles, a), n, af)
             THEN 0 ELSE cnt[j][a]]]
    ELSE cnt

(* ---------------------------- print_gcs (lines 37-75) ------------------ *)
\* The mutant of hapindices: the cluster's haplotypes sample by sample
\* (both sides of a sample together) instead of in list order.
RECURSIVE BySample(_, _)
BySample(S, half) ==
    IF S = {} THEN <<>>
    ELSE LET m == CHOOSE x \in S : \A y \in S :
                      \/ x % half > y % half
                      \/ (x % half = y % half /\ x >= y)
         IN  Append(BySample(S \ {m}, half), m)

hapindicesBySample(oclust, j) ==
    BySample({i \in 0..(Len(oclust) - 1) : oclust[i + 1] = j}, Len(oclust) \div 2)

\* hapindices = [i for i in range(nhaps) if oclust[i]==j], nhaps = len(oclust)
hapindices(oclust, j) ==
    Ascending({i \in 0..(Len(oclust) - 1) : oclust[i + 1] = j})

\* is_homozygous indexes valleles at hapindex and at the other haplotype
\* of the same individual, with the global nindiv
HomozygousCrash(valleles, hapindex) == hapindex >= Len(valleles)

is_homozygous(valleles, hapindex) ==
    LET otherindex == IF hapindex < nindiv THEN hapindex + nindiv
                      ELSE hapindex - nindiv
    IN  valleles[hapindex + 1] = valleles[otherindex + 1]

\* doubleplus = [y >= minpartsize for y in x], as the set of its true places
doubleplus(x) == {a \in DOMAIN x : x[a] >= minpartsize}

whichalleles(x) == Ascending({a \in DOMAIN x : x[a] > 1})

\* hapindices0 / hapindices1: the members carrying a given allele, in order
Carriers(valleles, hap, allele) ==
    SelectSeq(hap, LAMBDA h : valleles[h + 1] = allele)

\* ':'.join([str(int(i % nindiv)), str(int(i/nindiv))]), nindiv = nhaps/2
Identity(i, half) == <<i % half, i \div half>>

\* The mutant of SizeKey: the two subcluster sizes added up.
SizeKeySubclusters(hap, hap0, hap1) == Len(hap0) + Len(hap1)

\* acclustsizes.update([len(hapindices)])
SizeKey(hap, hap0, hap1) == Len(hap)

\* a report line; cl, the cluster it is about, is not printed
ReportLine(pos, oclust, j, hap, hap0, hap1) ==
    [pos |-> pos, n0 |-> Len(hap0), n1 |-> Len(hap1),
     ids |-> [k \in 1..(Len(hap0) + Len(hap1)) |->
                 Identity((hap0 \o hap1)[k], Len(oclust) \div 2)],
     cl |-> j]

MoreThanTwo(pos) ==
    <<"more than two alleles in cluster at", pos, "printing first two">>

Mismatch == <<"files don't match in number of individuals">>

\* the body of the loop of print_gcs for cluster j
GcsCluster(valleles, oclust, cnt, pos, clustsize, j, acc) ==
    LET x == cnt[j]
        z == clustsize[j]
        ncand == Cardinality(doubleplus(x))
        hap == hapindices(oclust, j)
    IN  IF z < minclustsize THEN acc
        ELSE IF ncand <= 1 THEN acc
        ELSE LET acc1 == IF ncand > 2
                         THEN [acc EXCEPT !.err = Append(@, MoreThanTwo(pos))]
                         ELSE acc
             IN  IF \E k \in 1..Len(hap) : HomozygousCrash(valleles, hap[k])
                 THEN [acc1 EXCEPT !.crashed = TRUE]
                 ELSE IF deletion # 0
                         /\ \A k \in 1..Len(hap) : is_homozygous(valleles, hap[k])
                 THEN [acc1 EXCEPT !.ndel = @ + 1, !.dels = @ \cup {j}]
                 ELSE LET hap0 == Carriers(valleles, hap, whichalleles(x)[1])
                          hap1 == Carriers(valleles, hap, whichalleles(x)[2])
                      IN  [acc1 EXCEPT
                             !.out = Append(@, ReportLine(pos, oclust, j, hap,
                                                          hap0, hap1)),
                             !.acclustsizes =
                                 @ (+) SetToBag({SizeKey(hap, hap0, hap1)})]

\* for j,x,z in zip(range(nclust),counts,clustsize), nclust = len(oclust)
RECURSIVE print_gcs(_, _, _, _, _, _, _)
print_gcs(valleles, oclust, cnt, pos, clustsize, j, acc) ==
    IF acc.crashed \/ j >= Min2(Len(oclust), maxclustplus(oclust)) THEN acc
    ELSE print_gcs(valleles, oclust, cnt, pos, clustsize, j + 1,
                   GcsCluster(valleles, oclust, cnt, pos, clustsize, j, acc))

(* ---------------------------- one loop iteration (lines 83-124) -------- *)
\* what the iteration for the data line vbits leaves behind
Iteration(vbits) ==
    LET pos == vbits.pos
        sync == Sync(omibdfile, pos, oprev, onew, rd)
        base == [oprev |-> sync.oprev, onew |-> sync.onew, rd |-> sync.rd,
                 eof |-> eof \/ sync.eof, othis |-> othis, stage |-> "crashed",
                 counts |-> <<>>, out |-> <<>>, err |-> <<>>, dels |-> {},
                 ndel |-> ndel, acclustsizes |-> acclustsizes,
                 status |-> "crashed"]
    IN  IF sync.crashed THEN base
        ELSE
        LET sel == Othis(pos, sync.oprev, sync.onew)
            b1 == [base EXCEPT !.othis = sel]
        IN  IF ShortLine(vbits) THEN b1
            ELSE
            LET valleles == Valleles(vbits)
                cmax == MaxCount(valleles)
            IN  IF nalleles(valleles) = 1
                THEN [b1 EXCEPT !.stage = "monomorphic", !.status = "running"]
                ELSE IF MafAbove(cmax, n) \/ MafBelow(cmax, n, minaf)
                THEN [b1 EXCEPT !.stage = "filtered", !.status = "running"]
                ELSE
                LET oclust == Oclust(sel)
                    b2 == IF Len(valleles) # nhaps
                          THEN [b1 EXCEPT !.err = <<Mismatch>>] ELSE b1
                IN  IF Len(oclust) = 0 \/ TabulateCrash(oclust, valleles, nhaps)
                    THEN b2
                    ELSE
                    LET cnt == Collapse(Counts(oclust, valleles, nhaps),
                                        valleles, minaf)
                        acc == print_gcs(valleles, oclust, cnt, pos,
                                   Clustsize(oclust, nhaps), 0,
                                   [out |-> <<>>, err |-> b2.err, ndel |-> ndel,
                                    acclustsizes |-> acclustsizes, dels |-> {},
                                    crashed |-> FALSE])
                    IN  [b2 EXCEPT !.counts = cnt, !.out = acc.out,
                                   !.err = acc.err, !.dels = acc.dels,
                                   !.ndel = acc.ndel,
                                   !.acclustsizes = acc.acclustsizes,
                                   !.stage = IF acc.crashed THEN "crashed"
                                             ELSE "partitioned",
                                   !.status = IF acc.crashed THEN "crashed"
                                              ELSE "running"]

(* ---------------------------- actions ---------------------------------- *)
\* for vline in sys.stdin: a data line
DataLine ==
    /\ status = "running"
    /\ ln < Len(stdin)
    /\ \E r \in {Iteration(stdin[ln + 1])} :
           /\ ln' = ln + 1
           /\ oprev' = r.oprev /\ onew' = r.onew /\ rd' = r.rd /\ eof' = r.eof
           /\ othis' = r.othis /\ stage' = r.stage /\ counts' = r.counts
           /\ out' = r.out /\ err' = r.err /\ dels' = r.dels
           /\ ndel' = r.ndel /\ acclustsizes' = r.acclustsizes
           /\ status' = r.status
    /\ UNCHANGED <<omibdfile, stdin, vindex, minaf, nhaps>>

\* if vline[0]=='#': continue.  Comment lines are not kept in stdin: one may
\* come before any data line, and the iteration does nothing.
CommentLine ==
    /\ status = "running"
    /\ UNCHANGED vars

\* the for loop ends with the input
EndOfInput ==
    /\ status = "running"
    /\ ln = Len(stdin)
    /\ status' = "done"
    /\ UNCHANGED <<omibdfile, rd, stdin, ln, vindex, minaf, oprev, onew, nhaps,
                   ndel, acclustsizes, stage, othis, counts, out, err, dels,
                   eof>>

Next == DataLine \/ CommentLine \/ EndOfInput

(* ---------------------------- initial states --------------------------- *)
\* the state after line 82: the header and the first record are read
Startup(file, lines, ids, vids, af) ==
    /\ omibdfile = file
    /\ stdin = lines
    /\ ln = 0
    /\ vindex = VIndex(ids, vids)
    /\ minaf = af
    /\ rd = Min2(1, Len(file))
    /\ oprev = Readline(file, 0)
    /\ onew = Readline(file, 0)
    /\ nhaps = (Readline(file, 0).ntok - ClusterSampleToken) * 2
    /\ ndel = 0
    /\ acclustsizes = EmptyBag
    /\ status = "running"
    /\ stage = "start"
    /\ othis = EmptyLine
    /\ counts = <<>>
    /\ out = <<>>
    /\ err = <<>>
    /\ dels = {}
    /\ eof = FALSE

Decimal(num, den) == [num |-> num, den |-> den]

\* strictly increasing positions: both inputs are sorted by position
PosSeqs(maxlen) ==
    {Ascending(S) : S \in {T \in SUBSET (1..MaxPos) : Cardinality(T) <= maxlen}}

\* the cluster files with records at positions ps and token rows from rows
FilesAt(ps, rows) ==
    {[k \in 1..Len(ps) |-> Record(ps[k], f[k])] : f \in [1..Len(ps) -> rows]}

\* the VCF bodies with data lines at positions ps and genotype rows from gts
LinesAt(ps, gts) ==
    {[k \in 1..Len(ps) |-> [pos |-> ps[k], gts |-> f[k]]] :
        f \in [1..Len(ps) -> gts]}

Pairs(S) == {<<a, b>> : a \in S, b \in S}

\* every row of m tokens a|b over the values S
Rows(m, S) == [1..m -> Pairs(S)]

\* the rows in which all samples but at most one have both haplotypes in
\* one common cluster c
NearUniform(m, S) ==
    {r \in Rows(m, S) : \E c \in S : \E k \in 1..m :
        \A i \in 1..m : i # k => r[i] = <<c, c>>}

(* Synchronizer runs: two samples (listed in the other order in the VCF),  *)
(* every cluster file of at most MaxRecs records and every VCF of at most  *)
(* MaxLines data lines at positions up to MaxPos; all four haplotypes in   *)
(* cluster 0 and both samples heterozygous, so that every line reports.    *)
SyncIds == <<"s1", "s2">>
SyncVids == <<"s2", "s1">>

InitSync ==
    \E fp \in PosSeqs(MaxRecs), lp \in PosSeqs(MaxLines) :
        \E file \in FilesAt(fp, {<<<<0, 0>>, <<0, 0>>>>}),
           lines \in LinesAt(lp, {<<<<0, 1>>, <<1, 0>>>>}) :
            Startup(file, lines, SyncIds, SyncVids, Decimal(1, 10))

SpecSync == InitSync /\ [][Next]_vars

(* Partitioner runs: three samples, one cluster record and one variant at  *)
(* position 1; every genotype row over the alleles 0..MaxAllele and every  *)
(* near-uniform cluster row over the ids 0 and 1; minaf = 0.2.             *)
PartIds == <<"s1", "s2", "s3">>

InitPart ==
    \E row \in NearUniform(Len(PartIds), {0, 1}),
       gts \in Rows(Len(PartIds), 0..MaxAllele) :
        Startup(<<Record(1, row)>>, <<[pos |-> 1, gts |-> gts]>>,
                PartIds, PartIds, Decimal(2, 10))

SpecPart == InitPart /\ [][Next]_vars

(* Multiallelic runs: four samples, all in cluster 0 or the last sample in *)
(* cluster 1; every genotype row over 0..MaxAllele; minaf = 0.3.           *)
MultiIds == <<"s1", "s2", "s3", "s4">>

MultiRows ==
    {r \in Rows(Len(MultiIds), {0, 1}) :
        /\ \A i \in 1..(Len(MultiIds) - 1) : r[i] = <<0, 0>>
        /\ r[Len(MultiIds)] \in {<<0, 0>>, <<1, 1>>}}

InitMulti ==
    \E row \in MultiRows, gts \in Rows(Len(MultiIds), 0..MaxAllele) :
        Startup(<<Record(1, row)>>, <<[pos |-> 1, gts |-> gts]>>,
                MultiIds, MultiIds, Decimal(3, 10))

SpecMulti == InitMulti /\ [][Next]_vars

(* Cluster-id runs: three samples, every near-uniform cluster row over the *)
(* ids 0 and BigId (an id that is not below the number of haplotypes).     *)
IdIds == <<"s1", "s2", "s3">>

InitIds ==
    \E row \in NearUniform(Len(IdIds), {0, BigId}),
       gts \in Rows(Len(IdIds), 0..MaxAllele) :
        Startup(<<Record(1, row)>>, <<[pos |-> 1, gts |-> gts]>>,
                IdIds, IdIds, Decimal(1, 10))

SpecIds == InitIds /\ [][Next]_vars

(* Frequency-filter runs: five samples in one cluster, every biallelic     *)
(* genotype row, minaf one of 0.1, 0.2, 0.3.                               *)
AfIds == <<"s1", "s2", "s3", "s4", "s5">>

InitAf ==
    \E gts \in Rows(Len(AfIds), {0, 1}), num \in {1, 2, 3} :
        Startup(<<Record(1, [k \in 1..Len(AfIds) |-> <<0, 0>>])>>,
                <<[pos |-> 1, gts |-> gts]>>, AfIds, AfIds, Decimal(num, 10))

SpecAf == InitAf /\ [][Next]_vars

(* Mismatch runs: two samples in the header and in the VCF, cluster        *)
(* records of one, two or three sample tokens.                             *)
MisIds == <<"s1", "s2">>

MisRows ==
    {[k \in 1..m |-> <<0, 0>>] : m \in (Len(MisIds) - 1)..(Len(MisIds) + 1)}

MisGts == {<<<<0, 1>>, <<0, 1>>>>, <<<<0, 0>>, <<0, 0>>>>}

InitMismatch ==
    \E fp \in PosSeqs(MaxRecs) \ {<<>>}, lp \in PosSeqs(MaxLines) :
        \E file \in FilesAt(fp, MisRows), lines \in LinesAt(lp, MisGts) :
            Startup(file, lines, MisIds, MisIds, Decimal(1, 10))

SpecMismatch == InitMismatch /\ [][Next]_vars

(* ======================================================================= *)
(* The claims.  Cur is the data line of the latest iteration.              *)
(* ======================================================================= *)
Cur == stdin[ln]

\* the latest iteration selected a record and went on until a continue or
\* to the end of the loop body
Completed == ln >= 1 /\ stage \in {"monomorphic", "filtered", "partitioned"}

CurAlleles == Valleles(Cur)

\* the allele carried by the haplotype printed as sample:side
AlleleOf(id) == CurAlleles[id[2] * nindiv + id[1] + 1]

\* the haplotypes (as sample:side) that the record rec puts in cluster j
Members(rec, j) ==
    {id \in (0..(Len(rec.toks) - 1)) \X {0, 1} :
        rec.toks[id[1] + 1][id[2] + 1] = j}

ClusterIds(rec) == {rec.toks[k][s] : k \in 1..Len(rec.toks), s \in {1, 2}}

\* the individual owning the haplotype is homozygous at the site
Homozygous(id) == AlleleOf(<<id[1], 0>>) = AlleleOf(<<id[1], 1>>)

CarriersIn(rec, j, a) == {id \in Members(rec, j) : AlleleOf(id) = a}

\* the candidate alleles of cluster j in the table given to the partitioner
Candidates(j) == {a \in DOMAIN counts[j] : counts[j][a] >= minpartsize}

SetMin(S) == CHOOSE m \in S : \A x \in S : m <= x

Lowest(S) == SetMin(S)
SecondLowest(S) == SetMin(S \ {SetMin(S)})

LinesOf(j) == {k \in 1..Len(out) : out[k].cl = j}

\* the allele's frequency over all haplotypes is below minaf
GlobalBelow(a) == AlleleCount(CurAlleles, a) * minaf.den < minaf.num * n

(* ----------------------------------------------------------------------- *)
(* C1: the record the synchronizer selects is, among all cluster records   *)
(* read so far, at minimum absolute distance from the variant position,    *)
(* and of two records at the same distance it is the earlier one.          *)
(* ----------------------------------------------------------------------- *)
C1_NearestEarlierOnTie ==
    Completed =>
        /\ \E k \in 1..rd : othis = omibdfile[k]
        /\ \A k \in 1..rd :
            LET d == Abs(omibdfile[k].pos - Cur.pos)
                dsel == Abs(othis.pos - Cur.pos)
            IN  dsel <= d /\ (d = dsel => othis.pos <= omibdfile[k].pos)

\* a variant half way between two records that have been read
C1_Witness ==
    /\ Completed
    /\ \E k \in 1..rd :
        /\ omibdfile[k].pos > othis.pos
        /\ Abs(omibdfile[k].pos - Cur.pos) = Abs(othis.pos - Cur.pos)

(* ----------------------------------------------------------------------- *)
(* C7: once the cluster stream is exhausted the buffer holds the last      *)
(* record (as previous and as current), every later variant selects it,    *)
(* no further record is read and no error is raised; the run ends only     *)
(* when the variant stream has ended.                                      *)
(* ----------------------------------------------------------------------- *)
C7_FrozenOnLastRecord ==
    /\ eof =>
        /\ status # "crashed"
        /\ Len(omibdfile) >= 1
        /\ rd = Len(omibdfile)
        /\ onew = omibdfile[Len(omibdfile)]
        /\ oprev = onew
        /\ Completed
        /\ othis = omibdfile[Len(omibdfile)]
    /\ status = "done" => ln = Len(stdin)

\* the run has ended after two or more variants beyond the last record
C7_Witness ==
    /\ eof
    /\ status = "done"
    /\ Cardinality({k \in 1..Len(stdin) :
           stdin[k].pos > omibdfile[Len(omibdfile)].pos}) >= 2

(* ----------------------------------------------------------------------- *)
(* C5: at a retained variant with three or more distinct alleles, in the   *)
(* table given to the partitioner every cluster's count of an allele whose *)
(* global frequency is below minaf is zero, every other count is the       *)
(* number of the cluster's haplotypes carrying the allele, and no report   *)
(* lists a carrier of such an allele.                                      *)
(* ----------------------------------------------------------------------- *)
RawCount(j, a) == Cardinality(CarriersIn(othis, j, a))

SubclustersInTurn(l) ==
    /\ Len(l.ids) = l.n0 + l.n1
    /\ \A k1, k2 \in 1..Len(l.ids) :
        (AlleleOf(l.ids[k1]) = AlleleOf(l.ids[k2])) <=> ((k1 <= l.n0) <=> (k2 <= l.n0))
    /\ \A k1, k2 \in 1..Len(l.ids) : k1 # k2 => l.ids[k1] # l.ids[k2]

SameSubcluster(l, k1, k2) == (k1 <= l.n0) <=> (k2 <= l.n0)

C9_SampleBySample ==
    Completed =>
        \A k \in 1..Len(out) :
            /\ SubclustersInTurn(out[k])
            /\ \A k1, k2 \in 1..Len(out[k].ids) :
                (k1 < k2 /\ SameSubcluster(out[k], k1, k2)) =>
                    LET a == out[k].ids[k1]
                        b == out[k].ids[k2]
                    IN  a[1] < b[1] \/ (a[1] = b[1] /\ a[2] < b[2])

(* ----------------------------------------------------------------------- *)
(* C9, amended: in every report line subcluster 0 comes before             *)
(* subcluster 1, the two are disjoint, and within each subcluster the      *)
(* identities are in the order of the program's haplotype list: the side-0 *)
(* haplotypes of all samples in the record's sample order, then the side-1 *)
(* haplotypes in the same sample order.                                    *)
(* ----------------------------------------------------------------------- *)
C9_SideThenSample ==
    Completed =>
        \A k \in 1..Len(out) :
            /\ SubclustersInTurn(out[k])
            /\ \A k1, k2 \in 1..Len(out[k].ids) :
                (k1 < k2 /\ SameSubcluster(out[k], k1, k2)) =>
                    LET a == out[k].ids[k1]
                        b == out[k].ids[k2]
                    IN  a[2] < b[2] \/ (a[2] = b[2] /\ a[1] < b[1])

\* a subcluster holding side 0 of one sample and side 1 of an earlier one
C9_Witness ==
    /\ Completed
    /\ \E k \in 1..Len(out) : \E k1, k2 \in 1..Len(out[k].ids) :
        /\ k1 < k2 /\ SameSubcluster(out[k], k1, k2)
        /\ out[k].ids[k1][1] > out[k].ids[k2][1]

(* ----------------------------------------------------------------------- *)
(* C10, as claimed: each report line adds one to the histogram entry whose *)
(* key is the sum of the two subcluster sizes printed on it, and nothing   *)
(* else changes the histogram.                                             *)
(* ----------------------------------------------------------------------- *)
RECURSIVE SubclusterSizes(_)
SubclusterSizes(lines) ==
    IF lines = <<>> THEN EmptyBag
    ELSE SubclusterSizes(Tail(lines)) (+) SetToBag({Head(lines).n0 + Head(lines).n1})

C10_KeyedBySubclusterSum ==
    [][acclustsizes' = IF ln' = ln + 1
                       THEN acclustsizes (+) SubclusterSizes(out')
                       ELSE acclustsizes]_vars

(* ----------------------------------------------------------------------- *)
(* C10, amended: each report line adds one to the histogram entry whose    *)
(* key is the number of haplotypes the record puts in the reported cluster *)
(* (the two subclusters and the haplotypes in neither), and nothing else   *)
(* changes the histogram: not a skipped cluster, not a deletion.           *)
(* ----------------------------------------------------------------------- *)
RECURSIVE ClusterSizes(_, _)
ClusterSizes(lines, rec) ==
    IF lines = <<>> THEN EmptyBag
    ELSE ClusterSizes(Tail(lines), rec)
            (+) SetToBag({Cardinality(Members(rec, Head(lines).cl))})

C10_KeyedByClusterSize ==
    [][acclustsizes' = IF ln' = ln + 1
                       THEN acclustsizes (+) ClusterSizes(out', othis')
                       ELSE acclustsizes]_vars

\* a reported cluster with a haplotype in neither subcluster
C10_Witness ==
    /\ Completed
    /\ \E k \in 1..Len(out) :
        /\ out[k].n0 + out[k].n1 < Cardinality(Members(othis, out[k].cl))
        /\ BagIn(Cardinality(Members(othis, out[k].cl)), acclustsizes)

(* ----------------------------------------------------------------------- *)
(* C2: at a retained variant, a cluster of at least 4 haplotypes with two  *)
(* or more candidate alleles, in which every carrier of the two (lowest)   *)
(* candidate alleles belongs to a homozygous individual, gets no report    *)
(* line and is counted as one deletion, whatever the zygosity of its       *)
(* members that carry another allele.                                      *)
(* ----------------------------------------------------------------------- *)
Mixed(j) ==
    /\ Cardinality(Members(othis, j)) >= minclustsize
    /\ Cardinality(Candidates(j)) >= 2

TwoCandidateCarriers(j) ==
    CarriersIn(othis, j, Lowest(Candidates(j)))
        \cup CarriersIn(othis, j, SecondLowest(Candidates(j)))

C2_DeletionWhenCandidateCarriersHomozygous ==
    (ln >= 1 /\ stage = "partitioned") =>
        \A j \in ClusterIds(othis) :
            (Mixed(j) /\ \A id \in TwoCandidateCarriers(j) : Homozygous(id)) =>
                /\ LinesOf(j) = {}
                /\ j \in dels
                /\ ndel >= Cardinality(dels)

(* ----------------------------------------------------------------------- *)
(* C3: at a retained variant, every cluster id present in the selected     *)
(* record, whatever its value, with at least 4 haplotypes, exactly two     *)
(* candidate alleles and a heterozygous carrier of one of them gets        *)
(* exactly one report line: the position, the number of carriers of the    *)
(* lower candidate, the number of carriers of the higher one, and that     *)
(* many identities; and it is not counted as a deletion.                   *)
(* ----------------------------------------------------------------------- *)
C3_OneReportPerMixedCluster ==
    (ln >= 1 /\ stage = "partitioned") =>
        \A j \in ClusterIds(othis) :
            ( /\ Cardinality(Members(othis, j)) >= minclustsize
              /\ Cardinality(Candidates(j)) = 2
              /\ \E id \in TwoCandidateCarriers(j) : ~Homozygous(id) ) =>
                /\ Cardinality(LinesOf(j)) = 1
                /\ \A k \in LinesOf(j) :
                    /\ out[k].pos = Cur.pos
                    /\ out[k].n0 =
                         Cardinality(CarriersIn(othis, j, Lowest(Candidates(j))))
                    /\ out[k].n1 =
                         Cardinality(CarriersIn(othis, j, SecondLowest(Candidates(j))))
                    /\ Len(out[k].ids) = out[k].n0 + out[k].n1
                /\ j \notin dels

(* ----------------------------------------------------------------------- *)
(* C8: for a cluster of at least 4 haplotypes with more than two candidate *)
(* alleles the diagnostic naming the position is printed, processing goes  *)
(* on, and the deletion test and the report use the two lowest candidates: *)
(* subcluster 0 is the carriers of the lowest, subcluster 1 the carriers   *)
(* of the second lowest, and no other member is listed.                    *)
(* ----------------------------------------------------------------------- *)
IdsOf(l, from, to) == {l.ids[k] : k \in from..to}

C8_MoreThanTwoUsesLowestTwo ==
    (ln >= 1 /\ stage \in {"partitioned", "crashed"}) =>
        \A j \in ClusterIds(othis) :
            ( /\ j \in DOMAIN counts
              /\ Cardinality(Members(othis, j)) >= minclustsize
              /\ Cardinality(Candidates(j)) > 2 ) =>
                /\ \E k \in 1..Len(err) : err[k] = MoreThanTwo(Cur.pos)
                /\ status # "crashed"
                /\ IF \A id \in TwoCandidateCarriers(j) : Homozygous(id)
                   THEN LinesOf(j) = {} /\ j \in dels
                   ELSE /\ Cardinality(LinesOf(j)) = 1
                        /\ j \notin dels
                        /\ \A k \in LinesOf(j) :
                            /\ IdsOf(out[k], 1, out[k].n0) =
                                 CarriersIn(othis, j, Lowest(Candidates(j)))
                            /\ IdsOf(out[k], out[k].n0 + 1, Len(out[k].ids)) =
                                 CarriersIn(othis, j, SecondLowest(Candidates(j)))

(* ----------------------------------------------------------------------- *)
(* C4: the lower bound of the frequency filter is inclusive: a biallelic   *)
(* variant whose minor allele frequency, 1 minus the largest allele count  *)
(* over n, equals minaf is given to the partitioner, and one whose minor   *)
(* allele frequency is below minaf is skipped without any output.          *)
(* ----------------------------------------------------------------------- *)
C4_LowerBoundInclusive ==
    (ln >= 1 /\ status # "crashed" /\ nalleles(CurAlleles) = 2) =>
        LET minor == n - MaxCount(CurAlleles)
        IN  /\ minor * minaf.den = minaf.num * n => stage = "partitioned"
            /\ minor * minaf.den < minaf.num * n =>
                   stage = "filtered" /\ out = <<>>

(* ----------------------------------------------------------------------- *)
(* C6: when the variant and the selected cluster record disagree on the    *)
(* number of haplotypes, whichever is larger, the tabulator prints the     *)
(* mismatch diagnostic and the program goes on: it does not abort.         *)
(* ----------------------------------------------------------------------- *)
C6_MismatchIsNotFatal ==
    ( /\ ln >= 1
      /\ stage \in {"partitioned", "crashed"}
      /\ Len(CurAlleles) # 2 * Len(othis.toks) ) =>
        /\ \E k \in 1..Len(err) : err[k] = Mismatch
        /\ status # "crashed"

====
